---- MODULE Spec2Model ----
(***************************************************************************)
(* Model of src/main.go: a bridge that negotiates one WebRTC session over  *)
(* a websocket signaling channel and relays the received RTP streams to    *)
(* UDP destinations.                                                       *)
(*                                                                         *)
(* Execution contexts (goroutines) of the program:                         *)
(*   - main: setup, then startControlLoop (the signaling receive loop);    *)
(*     when startControlLoop returns, main returns and the process ends;   *)
(*   - the OnICECandidate callback, invoked by the transport engine;       *)
(*   - one OnTrack handler per media kind (the relay loop);                *)
(*   - one feedback emitter per OnTrack handler (a ticker goroutine).      *)
(* The transport engine (pion), the websocket and the UDP sockets are      *)
(* the environment: the result of each call into them is an input chosen   *)
(* with \E.  Every access to memory shared between goroutines is a step    *)
(* of its own, so all interleavings of the unsynchronised accesses are     *)
(* explored.  A write to the websocket is two steps, the entry into        *)
(* WriteMessage and its return; wsOut records the returns.                 *)
(***************************************************************************)
EXTENDS Naturals, Sequences, FiniteSets

\* ---------------------------------------------------------------- bounds
\* signaling messages read by startControlLoop in one run
MaxMessages == 3
\* local ICE candidates discovered in one run
MaxCandidates == 2
\* frames read by one relay loop in one run
MaxFrames == 2
\* ticks of one feedback emitter in one run
MaxTicks == 2

\* ------------------------------------------------------------- constants
\* b := make([]byte, 1500)
BufLen == 1500
\* rtp fixed header length (rtp.Packet.Unmarshal rejects shorter input)
HeaderLength == 12

Kinds == {"audio", "video"}

VARIABLES
    \* main goroutine
    mainPc,             \* "setup" | "loop" | "returned"
    proc,               \* "running" | "exited" | "panicked"
    panicBy,            \* where the panic that ended the process was raised
    videoUDPConn,       \* "nil" | "open" | "closed"
    audioUDPConn,       \* "nil" | "open" | "closed"
    payloadType,        \* kind -> udpConn.payloadType (uint8)
    \* signaling channel
    wsOut,              \* messages handed to wsConn.WriteMessage, in order
    wsClosed,           \* wsConn.Close() was called
    wsWriters,          \* the contexts that are inside wsConn.WriteMessage
    \* peer connection (session)
    localDescription,   \* "absent" | "fromAnswer" | "created"
    remoteDescription,  \* "absent" | "fromAnswer" | "fromOffer"
    \* startControlLoop / handleRemoteAnswer / sendAnswer
    loopPc,
    msgCount,
    pendingCandidates,  \* the slice main owns and both contexts use
    drainSlice,         \* the slice value the range statement evaluated
    drainIdx,
    \* OnICECandidate callback
    cbPc,               \* "idle" | "check" | "append" | "send"
    cbCand,
    nextCand,
    gatheringDone,
    \* history of the message being handled and of the candidates
    cur,
    exitCause,
    appendLog,
    bufferedAtDrain,
    \* OnTrack handlers (relay loops), one per kind
    trackPc,            \* kind -> position of the relay loop
    err,                \* the err variable of setupMediaForwarding, which
                        \* the OnTrack closure captures: shared by both loops
    b,                  \* kind -> the 1500 byte buffer (bytes written so far)
    n,                  \* kind -> n
    rtpPacket,          \* kind -> the parsed packet
    frameCount,         \* kind -> frames read
    \* history of the relay loops
    lastRead,           \* kind -> the frame track.Read returned last
    lastWrite,          \* kind -> the last call of conn.Write
    ownErr,             \* kind -> result of the loop's own last operation
    \* feedback emitters, one per OnTrack handler
    sendPLI,            \* *RTCPSendPLI
    sendREMB,           \* *RTCPSendREMB
    tickCount,          \* kind -> ticks of the emitter's ticker handled
    rtcpOut             \* kind -> the emitter's calls of WriteRTCP, in order

mainVars == <<mainPc, proc, panicBy>>
setupVars == <<videoUDPConn, audioUDPConn, payloadType>>
wsVars == <<wsOut, wsClosed, wsWriters>>
sessVars == <<localDescription, remoteDescription>>
loopVars == <<loopPc, msgCount, drainSlice, drainIdx, cur, exitCause, bufferedAtDrain>>
bufVars == <<pendingCandidates, appendLog>>
cbVars == <<cbPc, cbCand, nextCand, gatheringDone>>
fbVars == <<sendPLI, sendREMB, tickCount, rtcpOut>>
relayVars == <<trackPc, err, b, n, rtpPacket, frameCount, lastRead, lastWrite, ownErr,
               fbVars>>

vars == <<mainVars, setupVars, wsVars, sessVars, loopVars, bufVars, cbVars, relayVars>>

\* ------------------------------------------------------------ flag values
\* values of -RTPVideoPayloadType (flag.Uint): the default 125, and two
\* values a 7-bit payload type cannot hold
VideoPayloadTypeFlags == {125, 200, 381}

\* values of -RTPAudioPayloadType (flag.Uint): the default
AudioPayloadTypeFlags == {111}

\* values of -RTCPSendPLI and -RTCPSendREMB (flag.Bool): the defaults
DefaultRTCPFlags == {[pli |-> TRUE, remb |-> TRUE]}

\* every setting of the two flags
RTCPFlags == [pli : BOOLEAN, remb : BOOLEAN]

\* uint8(*RTPVideoPayloadType): the conversion keeps the low 8 bits
Uint8(x) == x % 256

\* udpConn.payloadType of each target, as setupMediaForwarding sets it
TargetPayloadType(videoFlag, audioFlag) ==
    [k \in Kinds |-> IF k = "video" THEN Uint8(videoFlag) ELSE Uint8(audioFlag)]

\* --------------------------------------------------------------- messages
\* sendLocalIceCandidate: {"type":"iceCandidate","candidate":<ToJSON()>}
IceCandidateMsg(c, ctx) == [type |-> "iceCandidate", cand |-> c, from |-> ctx]

\* createAnswer: the marshalled local answer, {"type":"answer","sdp":...}
AnswerMsg == [type |-> "answer", cand |-> 0, from |-> "loop"]

\* record of the signaling message whose handling began last; `buffered` is
\* the pending set, and `discovered` the number of candidates discovered, when
\* the message's SetRemoteDescription succeeded
NewCur(kind) == [kind |-> kind, malformed |-> FALSE, setLocal |-> "none",
                 setRemote |-> "none", create |-> "none", start |-> Len(wsOut),
                 buffered |-> <<>>, discovered |-> 0]

NoCur == [kind |-> "none", malformed |-> FALSE, setLocal |-> "none",
          setRemote |-> "none", create |-> "none", start |-> 0, buffered |-> <<>>,
          discovered |-> 0]

NoPanic == [kind |-> "none", at |-> "none"]

\* ------------------------------------------------------------- byte buffers
\* A buffer is the sequence of the bytes written to it so far; the bytes
\* beyond are zero, as make([]byte, 1500) leaves them.  Offsets are the
\* code's 0-based offsets.
Get(buf, i) == IF i <= Len(buf) THEN buf[i] ELSE 0

\* buf[off : off+len]
Slice(buf, off, len) == [i \in 1..len |-> Get(buf, off + i)]

Max(x, y) == IF x >= y THEN x ELSE y

\* copy(buf[off:], bytes)
Put(buf, off, bytes) ==
    [i \in 1..Max(Len(buf), off + Len(bytes)) |->
        IF i > off /\ i <= off + Len(bytes) THEN bytes[i - off] ELSE Get(buf, i)]

Zeros(len) == [i \in 1..len |-> 0]

\* --------------------------------------------------------------- rtp.Packet
\* The header fields the relay loop's packet holds.  The extension payload
\* and the packet payload are slices of the buffer they were parsed from
\* (offset and length), as in rtp.Packet.
ZeroPacket ==
    [Version |-> 0, Padding |-> 0, Extension |-> 0, Marker |-> 0,
     PayloadType |-> 0, fixed |-> Zeros(10), CSRC |-> <<>>,
     ExtensionProfile |-> <<0, 0>>, extOff |-> 0, extLen |-> 0,
     payOff |-> 0, payLen |-> 0]

\* rtpPacket.Unmarshal(b[:len]): parse version, padding, extension, CSRC
\* count, marker, payload type, the sequence number/timestamp/SSRC bytes,
\* the CSRC list and a header extension block; the rest is the payload.
\* Returns the error and the packet as the call leaves it.
Unmarshal(p, buf, len) ==
    IF len < HeaderLength
    THEN [err |-> "decode", pkt |-> p]
    ELSE
      LET b0 == Get(buf, 1)
          cc == b0 % 16
          off1 == HeaderLength + 4 * cc
          p1 == [p EXCEPT !.Version = b0 \div 64,
                          !.Padding = (b0 \div 32) % 2,
                          !.Extension = (b0 \div 16) % 2,
                          !.CSRC = Zeros(4 * cc)]
      IN IF len < off1
         THEN [err |-> "decode", pkt |-> p1]
         ELSE
           LET b1 == Get(buf, 2)
               p2 == [p1 EXCEPT !.Marker = b1 \div 128,
                                !.PayloadType = b1 % 128,
                                !.fixed = Slice(buf, 2, 10),
                                !.CSRC = Slice(buf, HeaderLength, 4 * cc),
                                !.extOff = 0,
                                !.extLen = 0]
           IN IF p2.Extension = 0
              THEN [err |-> "nil",
                    pkt |-> [p2 EXCEPT !.payOff = off1, !.payLen = len - off1]]
              ELSE IF len < off1 + 4
              THEN [err |-> "decode", pkt |-> p2]
              ELSE
                LET profile == Slice(buf, off1, 2)
                    extLen == (Get(buf, off1 + 3) * 256 + Get(buf, off1 + 4)) * 4
                    p3 == [p2 EXCEPT !.ExtensionProfile = profile]
                IN IF len < off1 + 4 + extLen
                   THEN [err |-> "decode", pkt |-> p3]
                   ELSE [err |-> "nil",
                         pkt |-> [p3 EXCEPT !.extOff = off1 + 4,
                                            !.extLen = extLen,
                                            !.payOff = off1 + 4 + extLen,
                                            !.payLen = len - (off1 + 4 + extLen)]]

\* buf[1] = h.PayloadType; if h.Marker { buf[1] |= 1 << 7 }
SecondByte(p) ==
    IF p.Marker = 1 /\ p.PayloadType < 128 THEN p.PayloadType + 128 ELSE p.PayloadType

\* rtpPacket.MarshalTo(b): write the header, the extension block and the
\* payload into the buffer, front to back, each copy reading its source
\* from the buffer as the writes before it left it.  Returns the error, the
\* length and the buffer.
MarshalTo(p, buf) ==
    LET hdr == <<(p.Version % 4) * 64 + p.Padding * 32 + p.Extension * 16
                   + (Len(p.CSRC) \div 4),
                 SecondByte(p)>> \o p.fixed \o p.CSRC
        n1 == Len(hdr)
        size == n1 + (IF p.Extension = 1 THEN 4 + p.extLen ELSE 0)
        buf1 == Put(buf, 0, hdr)
        buf2 == IF p.Extension = 1
                THEN Put(Put(Put(buf1, n1, p.ExtensionProfile),
                             n1 + 4,
                             Slice(Put(buf1, n1, p.ExtensionProfile), p.extOff, p.extLen)),
                         n1 + 2,
                         <<(p.extLen \div 4) \div 256, (p.extLen \div 4) % 256>>)
                ELSE buf1
        buf3 == Put(buf2, size, Slice(buf2, p.payOff, p.payLen))
    IN IF size > BufLen
       THEN [err |-> "shortBuffer", n |-> 0, buf |-> buf]
       ELSE IF size + p.payLen > BufLen
       THEN [err |-> "shortBuffer", n |-> 0, buf |-> buf2]
       ELSE [err |-> "nil", n |-> size + p.payLen, buf |-> buf3]

\* ----------------------------------------------------------------- frames
\* sequence number, timestamp and SSRC bytes of the modelled frames
FixedBytes == <<0, 7, 0, 0, 1, 44, 18, 52, 86, 120>>

\* RTP frames the engine delivers: V=2 with payload type 96, marker clear;
\* marker set with one CSRC; padding and a header extension (RFC 3550
\* profile, one word); and a datagram shorter than the fixed header.
Frames ==
    { <<128, 96>> \o FixedBytes \o <<222, 173>>,
      <<129, 224>> \o FixedBytes \o <<0, 0, 0, 5>> \o <<190>>,
      <<176, 111>> \o FixedBytes \o <<0, 1, 0, 1>> \o <<1, 2, 3, 4>> \o <<9, 0, 2>>,
      <<128, 96, 0>> }

\* ------------------------------------------------------------------- Init
\* The state when main has registered the callbacks and setupMediaForwarding
\* has returned: each createUDPConnection succeeded or returned nil, and err
\* holds the error of the last one (audio).
InitWith(videoFlags, audioFlags, rtcpFlags) ==
    /\ mainPc = "setup"
    /\ proc = "running"
    /\ panicBy = NoPanic
    /\ videoUDPConn \in {"nil", "open"}
    /\ audioUDPConn \in {"nil", "open"}
    /\ \E vf \in videoFlags, af \in audioFlags :
           payloadType = TargetPayloadType(vf, af)
    /\ wsOut = <<>>
    /\ wsClosed = FALSE
    /\ wsWriters = {}
    /\ localDescription = "absent"
    /\ remoteDescription = "absent"
    /\ loopPc = "read"
    /\ msgCount = 0
    /\ pendingCandidates = <<>>
    /\ drainSlice = <<>>
    /\ drainIdx = 1
    /\ cbPc = "idle"
    /\ cbCand = 0
    /\ nextCand = 1
    /\ gatheringDone = FALSE
    /\ cur = NoCur
    /\ exitCause = "none"
    /\ appendLog = <<>>
    /\ bufferedAtDrain = <<>>
    /\ trackPc = [k \in Kinds |-> "none"]
    /\ err = IF audioUDPConn = "nil" THEN "dial" ELSE "nil"
    /\ b = [k \in Kinds |-> <<>>]
    /\ n = [k \in Kinds |-> 0]
    /\ rtpPacket = [k \in Kinds |-> ZeroPacket]
    /\ frameCount = [k \in Kinds |-> 0]
    /\ lastRead = [k \in Kinds |-> <<>>]
    /\ lastWrite = [k \in Kinds |-> [in |-> <<>>, out |-> <<>>, res |-> "none"]]
    /\ ownErr = [k \in Kinds |-> "nil"]
    /\ \E f \in rtcpFlags :
           /\ sendPLI = f.pli
           /\ sendREMB = f.remb
    /\ tickCount = [k \in Kinds |-> 0]
    /\ rtcpOut = [k \in Kinds |-> <<>>]

Init == InitWith(VideoPayloadTypeFlags, AudioPayloadTypeFlags, DefaultRTCPFlags)

\* the default flags
InitDefault == InitWith({125}, {111}, DefaultRTCPFlags)

\* the default payload types and every setting of the feedback flags
InitFeedback == InitWith({125}, {111}, RTCPFlags)

\* ------------------------------------------------------------------- main
Running == proc = "running"

\* panic(e) in a goroutine with no recover: the Go runtime ends the
\* process, whichever goroutine panicked
Panic(k, at) ==
    /\ proc' = "panicked"
    /\ panicBy' = [kind |-> k, at |-> at]
    /\ mainPc' = mainPc

\* main: videoUDP, audioUDP := setupMediaForwarding(...); the two defer
\* statements evaluate videoUDP.conn and audioUDP.conn, which panics on a
\* nil *udpConn (createUDPConnection failed); then startControlLoop begins
MainEnterLoop ==
    /\ Running
    /\ mainPc = "setup"
    /\ IF videoUDPConn = "nil" \/ audioUDPConn = "nil"
          THEN /\ proc' = "panicked"
               /\ panicBy' = [kind |-> "main", at |-> "defer"]
               /\ mainPc' = mainPc
          ELSE /\ mainPc' = "loop"
               /\ UNCHANGED <<proc, panicBy>>
    /\ UNCHANGED <<setupVars, wsVars, sessVars, loopVars, bufVars, cbVars, relayVars>>

\* main returns after startControlLoop returned: the deferred Close calls
\* run and the process ends, and with it every goroutine
MainReturn ==
    /\ Running
    /\ mainPc = "loop"
    /\ loopPc = "exited"
    /\ mainPc' = "returned"
    /\ proc' = "exited"
    /\ audioUDPConn' = "closed"
    /\ videoUDPConn' = "closed"
    /\ wsClosed' = TRUE
    /\ UNCHANGED <<panicBy, payloadType, wsOut, wsWriters, sessVars, loopVars, bufVars, cbVars,
                   relayVars>>

\* ------------------------------------------------------- startControlLoop
LoopAt(pc) == Running /\ mainPc = "loop" /\ loopPc = pc

CanRead == LoopAt("read") /\ msgCount < MaxMessages

\* wsConn.ReadMessage() returns an error: close the channel and break
ReadFail ==
    /\ LoopAt("read")
    /\ wsClosed' = TRUE
    /\ loopPc' = "exited"
    /\ exitCause' = "readError"
    /\ UNCHANGED <<mainVars, setupVars, wsOut, wsWriters, sessVars, msgCount, drainSlice,
                   drainIdx, cur, bufferedAtDrain, bufVars, cbVars, relayVars>>

\* a message whose handling neither touches the session nor writes:
\* the loop is back at ReadMessage when the action ends
Ignored(kind, malformed) ==
    /\ CanRead
    /\ msgCount' = msgCount + 1
    /\ cur' = [NewCur(kind) EXCEPT !.malformed = malformed]
    /\ UNCHANGED <<mainVars, setupVars, wsVars, sessVars, loopPc, drainSlice, drainIdx,
                   exitCause, bufferedAtDrain, bufVars, cbVars, relayVars>>

\* json.Unmarshal(message, &objmap) fails: log and continue
RecvMalformedJSON == Ignored("invalidJSON", TRUE)

\* json.Unmarshal(objmap["type"], &pixelStreamingMessageType) fails (the
\* discriminant is missing or not a string): log and continue
RecvBadType == Ignored("badType", TRUE)

\* a playerCount handler that forgets the buffered candidates
RecvPlayerCountResets ==
    /\ CanRead
    /\ msgCount' = msgCount + 1
    /\ cur' = NewCur("playerCount")
    /\ pendingCandidates' = <<>>
    /\ UNCHANGED <<mainVars, setupVars, wsVars, sessVars, loopPc, drainSlice, drainIdx,
                   exitCause, bufferedAtDrain, appendLog, cbVars, relayVars>>

\* case "playerCount": the count is logged, also when it does not parse
RecvPlayerCount == \E bad \in BOOLEAN : Ignored("playerCount", bad)

\* case "config"
RecvConfig == Ignored("config", FALSE)

\* default: an unrecognized discriminant is logged
RecvUnknown == Ignored("unknown", FALSE)

\* case "iceCandidate": handleRemoteIceCandidate unmarshals the candidate and
\* hands it to peerConnection.AddICECandidate; a malformed or rejected
\* candidate is logged
RecvIceCandidate == \E bad \in BOOLEAN : Ignored("iceCandidate", bad)

\* case "answer": handleRemoteAnswer begins; a payload that does not
\* unmarshal into a session description is logged and the handler returns
RecvAnswer ==
    /\ CanRead
    /\ msgCount' = msgCount + 1
    /\ \E bad \in BOOLEAN :
         /\ cur' = [NewCur("answer") EXCEPT !.malformed = bad]
         /\ loopPc' = IF bad THEN "read" ELSE "ans_setlocal"
    /\ UNCHANGED <<mainVars, setupVars, wsVars, sessVars, drainSlice, drainIdx,
                   exitCause, bufferedAtDrain, bufVars, cbVars, relayVars>>

\* peerConnection.SetLocalDescription(sdp): on an error the handler returns
AnswerSetLocal ==
    /\ LoopAt("ans_setlocal")
    /\ \E ok \in BOOLEAN :
         IF ok
         THEN /\ localDescription' = "fromAnswer"
              /\ cur' = [cur EXCEPT !.setLocal = "ok"]
              /\ loopPc' = "ans_setremote"
         ELSE /\ localDescription' = localDescription
              /\ cur' = [cur EXCEPT !.setLocal = "failed"]
              /\ loopPc' = "read"
    /\ UNCHANGED <<mainVars, setupVars, wsVars, remoteDescription, msgCount, drainSlice,
                   drainIdx, exitCause, bufferedAtDrain, bufVars, cbVars, relayVars>>

\* a handleRemoteAnswer that only logs the SetRemoteDescription error and
\* goes on to the drain
AnswerSetRemoteLogOnly ==
    /\ LoopAt("ans_setremote")
    /\ \E ok \in BOOLEAN :
         /\ remoteDescription' = IF ok THEN "fromAnswer" ELSE remoteDescription
         /\ cur' = [cur EXCEPT !.setRemote = IF ok THEN "ok" ELSE "failed",
                                !.buffered = IF ok THEN pendingCandidates ELSE @,
                                !.discovered = IF ok THEN nextCand - 1 ELSE @]
    /\ loopPc' = "ans_range"
    /\ UNCHANGED <<mainVars, setupVars, wsVars, localDescription, msgCount, drainSlice,
                   drainIdx, exitCause, bufferedAtDrain, bufVars, cbVars, relayVars>>

\* peerConnection.SetRemoteDescription(sdp): on an error the handler returns
AnswerSetRemote ==
    /\ LoopAt("ans_setremote")
    /\ \E ok \in BOOLEAN :
         IF ok
         THEN /\ remoteDescription' = "fromAnswer"
              /\ cur' = [cur EXCEPT !.setRemote = "ok", !.buffered = pendingCandidates,
                                     !.discovered = nextCand - 1]
              /\ loopPc' = "ans_range"
         ELSE /\ remoteDescription' = remoteDescription
              /\ cur' = [cur EXCEPT !.setRemote = "failed"]
              /\ loopPc' = "read"
    /\ UNCHANGED <<mainVars, setupVars, wsVars, localDescription, msgCount, drainSlice,
                   drainIdx, exitCause, bufferedAtDrain, bufVars, cbVars, relayVars>>

\* for _, localIceCandidate := range *pendingCandidates: the range
\* expression is evaluated once, here; what is appended later is not seen
AnswerRange ==
    /\ LoopAt("ans_range")
    /\ drainSlice' = pendingCandidates
    /\ drainIdx' = 1
    /\ bufferedAtDrain' = appendLog
    /\ loopPc' = IF pendingCandidates = <<>> THEN "read" ELSE "ans_drain"
    /\ UNCHANGED <<mainVars, setupVars, wsVars, sessVars, msgCount, cur, exitCause,
                   bufVars, cbVars, relayVars>>

\* writeWSMessage: context ctx enters wsConn.WriteMessage.  The connection
\* supports one writer at a time and nothing in main.go serialises the
\* callers: when another context is inside, the library either detects the
\* concurrent write and panics, or does not and both writes go on.
WriteBegin(ctx) ==
    IF wsWriters = {}
    THEN /\ wsWriters' = {ctx}
         /\ UNCHANGED mainVars
    ELSE \E detected \in BOOLEAN :
           IF detected
           THEN /\ Panic(ctx, "wsWrite")
                /\ UNCHANGED wsWriters
           ELSE /\ wsWriters' = wsWriters \cup {ctx}
                /\ UNCHANGED mainVars

\* the signaling loop calls writeWSMessage: from sendLocalIceCandidate in
\* the drain, or from sendAnswer
LoopBeginWrite ==
    /\ Running
    /\ mainPc = "loop"
    /\ loopPc \in {"ans_drain", "off_write"}
    /\ "loop" \notin wsWriters
    /\ WriteBegin("loop")
    /\ UNCHANGED <<setupVars, wsOut, wsClosed, sessVars, loopVars, bufVars, cbVars,
                   relayVars>>

\* the element of the drain the loop sends at position i
DrainElement(slice, i) == slice[i]

\* one iteration of the range loop: sendLocalIceCandidate(wsConn, candidate);
\* the step is the return of WriteMessage
AnswerDrainStep ==
    /\ LoopAt("ans_drain")
    /\ drainIdx <= Len(drainSlice)
    /\ "loop" \in wsWriters
    /\ wsWriters' = wsWriters \ {"loop"}
    /\ wsOut' = Append(wsOut, IceCandidateMsg(DrainElement(drainSlice, drainIdx), "loop"))
    /\ drainIdx' = drainIdx + 1
    /\ loopPc' = IF drainIdx = Len(drainSlice) THEN "read" ELSE "ans_drain"
    /\ UNCHANGED <<mainVars, setupVars, wsClosed, sessVars, msgCount, drainSlice, cur,
                   exitCause, bufferedAtDrain, bufVars, cbVars, relayVars>>

\* case "offer": a payload that does not unmarshal into a session
\* description makes startControlLoop return
RecvOffer ==
    /\ CanRead
    /\ msgCount' = msgCount + 1
    /\ \E bad \in BOOLEAN :
         /\ cur' = [NewCur("offer") EXCEPT !.malformed = bad]
         /\ loopPc' = IF bad THEN "exited" ELSE "off_setremote"
         /\ exitCause' = IF bad THEN "offerMalformed" ELSE exitCause
    /\ UNCHANGED <<mainVars, setupVars, wsVars, sessVars, drainSlice, drainIdx,
                   bufferedAtDrain, bufVars, cbVars, relayVars>>

\* peerConnection.SetRemoteDescription(sdp): an error is logged and
\* sendAnswer is called all the same
OfferSetRemote ==
    /\ LoopAt("off_setremote")
    /\ \E ok \in BOOLEAN :
         /\ remoteDescription' = IF ok THEN "fromOffer" ELSE remoteDescription
         /\ cur' = [cur EXCEPT !.setRemote = IF ok THEN "ok" ELSE "failed",
                                !.buffered = IF ok THEN pendingCandidates ELSE @,
                                !.discovered = IF ok THEN nextCand - 1 ELSE @]
    /\ loopPc' = "off_create"
    /\ UNCHANGED <<mainVars, setupVars, wsVars, localDescription, msgCount, drainSlice,
                   drainIdx, exitCause, bufferedAtDrain, bufVars, cbVars, relayVars>>

\* createAnswer: peerConnection.CreateAnswer(nil).  The engine refuses to
\* create an answer while it has no remote description; otherwise the
\* result is the engine's.  On an error sendAnswer logs and writes nothing.
OfferCreateAnswer ==
    /\ LoopAt("off_create")
    /\ \E ok \in (IF remoteDescription = "absent" THEN {FALSE} ELSE BOOLEAN) :
         /\ cur' = [cur EXCEPT !.create = IF ok THEN "ok" ELSE "failed"]
         /\ loopPc' = IF ok THEN "off_setlocal" ELSE "read"
    /\ UNCHANGED <<mainVars, setupVars, wsVars, sessVars, msgCount, drainSlice,
                   drainIdx, exitCause, bufferedAtDrain, bufVars, cbVars, relayVars>>

\* createAnswer: peerConnection.SetLocalDescription(answer): an error is
\* logged, and the answer is marshalled and returned all the same
OfferSetLocal ==
    /\ LoopAt("off_setlocal")
    /\ \E ok \in BOOLEAN :
         /\ localDescription' = IF ok THEN "created" ELSE localDescription
         /\ cur' = [cur EXCEPT !.setLocal = IF ok THEN "ok" ELSE "failed"]
    /\ loopPc' = "off_write"
    /\ UNCHANGED <<mainVars, setupVars, wsVars, remoteDescription, msgCount, drainSlice,
                   drainIdx, exitCause, bufferedAtDrain, bufVars, cbVars, relayVars>>

\* a sendAnswer that logs the answer and writes it twice
SendAnswerTwice ==
    /\ LoopAt("off_write")
    /\ "loop" \in wsWriters
    /\ wsWriters' = wsWriters \ {"loop"}
    /\ wsOut' = Append(Append(wsOut, AnswerMsg), AnswerMsg)
    /\ loopPc' = "read"
    /\ UNCHANGED <<mainVars, setupVars, wsClosed, sessVars, msgCount, drainSlice,
                   drainIdx, cur, exitCause, bufferedAtDrain, bufVars, cbVars, relayVars>>

\* sendAnswer: writeWSMessage(wsConn, answerString)
SendAnswer ==
    /\ LoopAt("off_write")
    /\ "loop" \in wsWriters
    /\ wsWriters' = wsWriters \ {"loop"}
    /\ wsOut' = Append(wsOut, AnswerMsg)
    /\ loopPc' = "read"
    /\ UNCHANGED <<mainVars, setupVars, wsClosed, sessVars, msgCount, drainSlice,
                   drainIdx, cur, exitCause, bufferedAtDrain, bufVars, cbVars, relayVars>>

\* ------------------------------------------------- OnICECandidate callback
CbAt(pc) == Running /\ mainPc = "loop" /\ cbPc = pc

\* the engine invokes the callback with a newly gathered candidate
CbInvoke ==
    /\ CbAt("idle")
    /\ ~gatheringDone
    /\ nextCand <= MaxCandidates
    /\ cbCand' = nextCand
    /\ nextCand' = nextCand + 1
    /\ cbPc' = "check"
    /\ UNCHANGED <<mainVars, setupVars, wsVars, sessVars, loopVars, bufVars,
                   gatheringDone, relayVars>>

\* the engine invokes the callback with nil when gathering is complete:
\* the callback returns at once
CbNil ==
    /\ CbAt("idle")
    /\ ~gatheringDone
    /\ gatheringDone' = TRUE
    /\ UNCHANGED <<mainVars, setupVars, wsVars, sessVars, loopVars, bufVars,
                   cbPc, cbCand, nextCand, relayVars>>

\* desc := peerConnection.RemoteDescription(); if desc == nil
CbCheck ==
    /\ CbAt("check")
    /\ cbPc' = IF remoteDescription = "absent" THEN "append" ELSE "send"
    /\ UNCHANGED <<mainVars, setupVars, wsVars, sessVars, loopVars, bufVars,
                   cbCand, nextCand, gatheringDone, relayVars>>

\* a buffer that puts the newest candidate first
PrependCandidate(slice, c) == <<c>> \o slice

\* append(pendingCandidates, localIceCandidate)
AppendCandidate(slice, c) == Append(slice, c)

\* pendingCandidates = append(pendingCandidates, localIceCandidate)
CbAppend ==
    /\ CbAt("append")
    /\ pendingCandidates' = AppendCandidate(pendingCandidates, cbCand)
    /\ appendLog' = Append(appendLog, cbCand)
    /\ cbPc' = "idle"
    /\ UNCHANGED <<mainVars, setupVars, wsVars, sessVars, loopVars,
                   cbCand, nextCand, gatheringDone, relayVars>>

\* the callback calls writeWSMessage from sendLocalIceCandidate
CbBeginWrite ==
    /\ CbAt("send")
    /\ "callback" \notin wsWriters
    /\ WriteBegin("callback")
    /\ UNCHANGED <<setupVars, wsOut, wsClosed, sessVars, loopVars, bufVars, cbVars,
                   relayVars>>

\* sendLocalIceCandidate(wsConn, localIceCandidate): the return of
\* WriteMessage
CbSend ==
    /\ CbAt("send")
    /\ "callback" \in wsWriters
    /\ wsWriters' = wsWriters \ {"callback"}
    /\ wsOut' = Append(wsOut, IceCandidateMsg(cbCand, "callback"))
    /\ cbPc' = "idle"
    /\ UNCHANGED <<mainVars, setupVars, wsClosed, sessVars, loopVars, bufVars,
                   cbCand, nextCand, gatheringDone, relayVars>>

\* ------------------------------------------------- OnTrack (the relay loop)
TrackAt(k, pc) == Running /\ mainPc = "loop" /\ trackPc[k] = pc

sigVars == <<setupVars, wsVars, sessVars, loopVars, bufVars, cbVars>>

\* what the write-error branch decides: an *net.OpError whose inner error
\* reads "write: connection refused" continues, any other error panics
IsConnectionRefused(e) == e = "refused"

\* switch trackType: the target the handler of a track of kind k relays to
UdpConnection(k) == IF k = "audio" THEN audioUDPConn ELSE videoUDPConn

\* the engine calls the OnTrack handler, on a goroutine of its own, for a
\* negotiated track of kind k: the handler selects the kind's target,
\* allocates b and rtpPacket and enters the relay loop
OnTrack(k) ==
    /\ TrackAt(k, "none")
    /\ trackPc' = [trackPc EXCEPT ![k] = "read"]
    /\ UNCHANGED <<mainVars, sigVars, fbVars, err, b, n, rtpPacket, frameCount, lastRead,
                   lastWrite, ownErr>>

\* n, _, readErr := track.Read(b) fails: panic(readErr)
TrackReadFail(k) ==
    /\ TrackAt(k, "read")
    /\ Panic(k, "read")
    /\ ownErr' = [ownErr EXCEPT ![k] = "read"]
    /\ UNCHANGED <<sigVars, fbVars, trackPc, err, b, n, rtpPacket, frameCount, lastRead,
                   lastWrite>>

\* track.Read(b) returns a frame; err = rtpPacket.Unmarshal(b[:n])
TrackRead(k) ==
    /\ TrackAt(k, "read")
    /\ frameCount[k] < MaxFrames
    /\ \E f \in Frames :
         LET buf == Put(b[k], 0, f)
             r == Unmarshal(rtpPacket[k], buf, Len(f))
         IN /\ b' = [b EXCEPT ![k] = buf]
            /\ n' = [n EXCEPT ![k] = Len(f)]
            /\ lastRead' = [lastRead EXCEPT ![k] = f]
            /\ rtpPacket' = [rtpPacket EXCEPT ![k] = r.pkt]
            /\ err' = r.err
            /\ ownErr' = [ownErr EXCEPT ![k] = r.err]
    /\ frameCount' = [frameCount EXCEPT ![k] = @ + 1]
    /\ trackPc' = [trackPc EXCEPT ![k] = "chkUnmarshal"]
    /\ UNCHANGED <<mainVars, sigVars, fbVars, lastWrite>>

\* if err != nil { panic(err) }; rtpPacket.PayloadType = udpConnection.payloadType
TrackCheckUnmarshal(k) ==
    /\ TrackAt(k, "chkUnmarshal")
    /\ IF err # "nil"
       THEN /\ Panic(k, "unmarshal")
            /\ UNCHANGED <<trackPc, rtpPacket>>
       ELSE /\ rtpPacket' = [rtpPacket EXCEPT ![k].PayloadType = payloadType[k]]
            /\ trackPc' = [trackPc EXCEPT ![k] = "marshal"]
            /\ UNCHANGED mainVars
    /\ UNCHANGED <<sigVars, fbVars, err, b, n, frameCount, lastRead, lastWrite, ownErr>>

\* n, err = rtpPacket.MarshalTo(b)
TrackMarshal(k) ==
    /\ TrackAt(k, "marshal")
    /\ LET r == MarshalTo(rtpPacket[k], b[k])
       IN /\ b' = [b EXCEPT ![k] = r.buf]
          /\ n' = [n EXCEPT ![k] = r.n]
          /\ err' = r.err
          /\ ownErr' = [ownErr EXCEPT ![k] = r.err]
    /\ trackPc' = [trackPc EXCEPT ![k] = "chkMarshal"]
    /\ UNCHANGED <<mainVars, sigVars, fbVars, rtpPacket, frameCount, lastRead, lastWrite>>

\* if n, err = ...; err != nil { panic(err) }
TrackCheckMarshal(k) ==
    /\ TrackAt(k, "chkMarshal")
    /\ IF err # "nil"
       THEN /\ Panic(k, "marshal")
            /\ UNCHANGED trackPc
       ELSE /\ trackPc' = [trackPc EXCEPT ![k] = "write"]
            /\ UNCHANGED mainVars
    /\ UNCHANGED <<sigVars, fbVars, err, b, n, rtpPacket, frameCount, lastRead, lastWrite,
                   ownErr>>

\* _, err = udpConnection.conn.Write(b[:n]): the datagram is sent, or the
\* destination is unreachable (connection refused), or the write fails
\* for another reason
TrackWrite(k) ==
    /\ TrackAt(k, "write")
    /\ \E res \in {"nil", "refused", "writeFailed"} :
         /\ err' = res
         /\ ownErr' = [ownErr EXCEPT ![k] = res]
         /\ lastWrite' = [lastWrite EXCEPT ![k] =
                             [in |-> lastRead[k], out |-> Slice(b[k], 0, n[k]), res |-> res]]
    /\ trackPc' = [trackPc EXCEPT ![k] = "chkWrite"]
    /\ UNCHANGED <<mainVars, sigVars, fbVars, b, n, rtpPacket, frameCount, lastRead>>

\* if err != nil { if connection refused { continue }; panic(err) }
TrackCheckWrite(k) ==
    /\ TrackAt(k, "chkWrite")
    /\ IF err # "nil" /\ ~IsConnectionRefused(err)
       THEN /\ Panic(k, "write")
            /\ UNCHANGED trackPc
       ELSE /\ trackPc' = [trackPc EXCEPT ![k] = "read"]
            /\ UNCHANGED mainVars
    /\ UNCHANGED <<sigVars, fbVars, err, b, n, rtpPacket, frameCount, lastRead, lastWrite,
                   ownErr>>

\* ------------------------------------- the feedback emitter of an OnTrack
\* uint32(track.SSRC()): the stream identifier of the track of kind k, which
\* the engine assigns
TrackSSRC(k) == IF k = "audio" THEN 1111 ELSE 2222

\* one call of peerConnection.WriteRTCP by the emitter of kind k
Emission(type, k, tick, failed) ==
    [type |-> type, ssrc |-> TrackSSRC(k), tick |-> tick, failed |-> failed]

\* a tick body that leaves the tick when WriteRTCP returned an error
EmissionsStopOnError(k, tick, pliFailed, rembFailed) ==
    IF sendPLI /\ pliFailed
    THEN <<Emission("PLI", k, tick, TRUE)>>
    ELSE (IF sendPLI THEN <<Emission("PLI", k, tick, FALSE)>> ELSE <<>>)
         \o (IF sendREMB THEN <<Emission("REMB", k, tick, rembFailed)>> ELSE <<>>)

\* the body of `for range ticker.C`: if *RTCPSendPLI, WriteRTCP of a
\* PictureLossIndication with the track's SSRC; if *RTCPSendREMB, WriteRTCP
\* of a ReceiverEstimatedMaximumBitrate with the track's SSRC; an error of
\* either call is printed
Emissions(k, tick, pliFailed, rembFailed) ==
    (IF sendPLI THEN <<Emission("PLI", k, tick, pliFailed)>> ELSE <<>>)
    \o (IF sendREMB THEN <<Emission("REMB", k, tick, rembFailed)>> ELSE <<>>)

\* the ticker of the emitter that the OnTrack handler of kind k started
\* fires, and the emitter runs the tick's body
FeedbackTick(k) ==
    /\ Running
    /\ mainPc = "loop"
    /\ trackPc[k] # "none"
    /\ tickCount[k] < MaxTicks
    /\ tickCount' = [tickCount EXCEPT ![k] = @ + 1]
    /\ \E pliFailed, rembFailed \in BOOLEAN :
         rtcpOut' = [rtcpOut EXCEPT ![k] =
                        @ \o Emissions(k, tickCount[k] + 1, pliFailed, rembFailed)]
    /\ UNCHANGED <<mainVars, sigVars, sendPLI, sendREMB, trackPc, err, b, n, rtpPacket,
                   frameCount, lastRead, lastWrite, ownErr>>

\* ------------------------------------------------------------------- Next
NextSignaling ==
    \/ MainEnterLoop
    \/ MainReturn
    \/ ReadFail
    \/ RecvMalformedJSON
    \/ RecvBadType
    \/ RecvPlayerCount
    \/ RecvConfig
    \/ RecvUnknown
    \/ RecvIceCandidate
    \/ RecvAnswer
    \/ AnswerSetLocal
    \/ AnswerSetRemote
    \/ AnswerRange
    \/ LoopBeginWrite
    \/ AnswerDrainStep
    \/ RecvOffer
    \/ OfferSetRemote
    \/ OfferCreateAnswer
    \/ OfferSetLocal
    \/ SendAnswer
    \/ CbInvoke
    \/ CbNil
    \/ CbCheck
    \/ CbAppend
    \/ CbBeginWrite
    \/ CbSend

NextRelay ==
    \/ MainEnterLoop
    \/ \E k \in Kinds : OnTrack(k)
    \/ \E k \in Kinds : TrackReadFail(k)
    \/ \E k \in Kinds : TrackRead(k)
    \/ \E k \in Kinds : TrackCheckUnmarshal(k)
    \/ \E k \in Kinds : TrackMarshal(k)
    \/ \E k \in Kinds : TrackCheckMarshal(k)
    \/ \E k \in Kinds : TrackWrite(k)
    \/ \E k \in Kinds : TrackCheckWrite(k)

Next == NextSignaling \/ NextRelay \/ (\E k \in Kinds : FeedbackTick(k))

\* the whole program
Spec == Init /\ [][Next]_vars

\* the signaling loop and the candidate callback, while no track is up
SpecSignaling == InitDefault /\ [][NextSignaling]_vars

\* the relay loops, while the signaling loop waits in ReadMessage
SpecRelay == Init /\ [][NextRelay]_vars

\* main from the start of the receive loop to the end of the process, with
\* the relay loops: the channel fails while tracks are relayed
NextShutdown ==
    \/ MainEnterLoop
    \/ ReadFail
    \/ MainReturn
    \/ \E k \in Kinds : OnTrack(k)
    \/ \E k \in Kinds : TrackReadFail(k)
    \/ \E k \in Kinds : TrackRead(k)
    \/ \E k \in Kinds : TrackCheckUnmarshal(k)
    \/ \E k \in Kinds : TrackMarshal(k)
    \/ \E k \in Kinds : TrackCheckMarshal(k)
    \/ \E k \in Kinds : TrackWrite(k)
    \/ \E k \in Kinds : TrackCheckWrite(k)

SpecShutdown == InitDefault /\ [][NextShutdown]_vars

\* the OnTrack handlers' feedback emitters, with every setting of the flags
NextFeedback ==
    \/ MainEnterLoop
    \/ \E k \in Kinds : OnTrack(k)
    \/ \E k \in Kinds : FeedbackTick(k)

SpecFeedback == InitFeedback /\ [][NextFeedback]_vars

\* ================================================================== claims
\* what the signaling loop wrote to the channel while handling the message
\* `cur` describes
LoopWrites ==
    SelectSeq(SubSeq(wsOut, cur.start + 1, Len(wsOut)), LAMBDA m : m.from = "loop")

\* how often candidate c was handed to the channel, by either context
Sent(c) ==
    Len(SelectSeq(wsOut, LAMBDA m : m.type = "iceCandidate" /\ m.cand = c))

\* how often the signaling loop's drain handed candidate c to the channel
Drained(c) ==
    Len(SelectSeq(wsOut, LAMBDA m : m.type = "iceCandidate" /\ m.cand = c
                                      /\ m.from = "loop"))

\* the handling of an "answer" has ended with both descriptions applied
AnswerHandled ==
    /\ loopPc = "read"
    /\ cur.kind = "answer"
    /\ cur.setRemote = "ok"

\* the handling of an "offer" has ended (also by leaving the loop)
OfferHandled ==
    /\ loopPc \in {"read", "exited"}
    /\ cur.kind = "offer"

\* C1: when an "answer" has been applied and its handling has ended, the
\* messages the handler wrote are exactly the candidates that had been
\* buffered (discovered with the remote description absent, their callbacks
\* done) when the drain began, as iceCandidate messages, in discovery order,
\* each once.
C1_DrainInDiscoveryOrder ==
    AnswerHandled =>
        /\ LoopWrites = [i \in 1..Len(bufferedAtDrain) |->
                            IceCandidateMsg(bufferedAtDrain[i], "loop")]
        /\ \A i, j \in 1..Len(bufferedAtDrain) :
               i < j => bufferedAtDrain[i] < bufferedAtDrain[j]

\* two candidates were buffered and an answer was then applied and drained
C1_Witness ==
    /\ AnswerHandled
    /\ bufferedAtDrain = <<1, 2>>
    /\ Len(LoopWrites) = 2

\* C2: the pending set grows only in states where the remote description
\* is absent.
C2_AppendOnlyWhileAbsent ==
    [][pendingCandidates' # pendingCandidates => remoteDescription = "absent"]_vars

\* C3: once an answer has been applied and drained and no callback is in
\* progress, every candidate discovered so far has been handed to the
\* channel exactly once.
C3_NoLossNoDuplicate ==
    (AnswerHandled /\ cbPc = "idle") =>
        \A c \in 1..(nextCand - 1) : Sent(c) = 1

\* C4: after an answer has been handled successfully none of the drained
\* candidates is left in the pending set, and no buffered candidate is ever
\* drained twice.
C4_DrainClears ==
    /\ AnswerHandled =>
          \A i \in 1..Len(pendingCandidates) :
              \A j \in 1..Len(drainSlice) : pendingCandidates[i] # drainSlice[j]
    /\ \A c \in 1..MaxCandidates : Drained(c) <= 1

\* C5: when the handling of an "offer" has ended and the offer was applied
\* and the local answer created and applied, the loop wrote exactly one
\* message while handling it, of type "answer".
C5_OneAnswerPerOffer ==
    (OfferHandled /\ cur.setRemote = "ok" /\ cur.create = "ok" /\ cur.setLocal = "ok")
        => LoopWrites = <<AnswerMsg>>

\* an offer was handled with every step succeeding
C5_Witness ==
    /\ OfferHandled
    /\ cur.setRemote = "ok"
    /\ cur.create = "ok"
    /\ cur.setLocal = "ok"
    /\ Len(LoopWrites) = 1

\* C6: when the handling of an "offer" has ended and one of its steps
\* failed (malformed payload, offer rejected, answer not created, answer
\* not applied), the loop wrote no message while handling it.
C6_NoAnswerOnFailure ==
    (OfferHandled /\ (cur.malformed \/ cur.setRemote = "failed"
                      \/ cur.create = "failed" \/ cur.setLocal = "failed"))
        => LoopWrites = <<>>

\* C7: the receive loop is left only after a read failure on the channel.
C7_LoopEndsOnlyOnReadFailure ==
    loopPc = "exited" => exitCause = "readError"

\* C8: a relay loop never panics at its write check when its own write
\* failed with connection refused.
C8_RefusedNeverTerminates ==
    \A k \in Kinds :
        (panicBy.kind = k /\ panicBy.at = "write") => lastWrite[k].res # "refused"

\* C9: after a relay loop has panicked the rest of the program is running.
C9_PanicEndsOnlyItsLoop ==
    panicBy.kind \in Kinds => proc = "running"

\* C10: a datagram that was sent has the length of the frame read, carries
\* the target's payload type in the payload-type field, and equals the
\* frame in the marker bit and in every other byte.
C10_OnlyPayloadTypeChanges ==
    \A k \in Kinds :
        lastWrite[k].res = "nil" =>
            /\ Len(lastWrite[k].out) = Len(lastWrite[k].in)
            /\ lastWrite[k].out[2] % 128 = payloadType[k]
            /\ lastWrite[k].out[2] \div 128 = lastWrite[k].in[2] \div 128
            /\ \A i \in 1..Len(lastWrite[k].in) :
                   i # 2 => lastWrite[k].out[i] = lastWrite[k].in[i]

\* the handling of a message that applied the remote description has ended
RemoteApplied ==
    /\ loopPc = "read"
    /\ cur.kind \in {"answer", "offer"}
    /\ cur.setRemote = "ok"

\* C11: when the handling of an "answer" or of an "offer" that applied the
\* remote description has ended, every candidate that was in the pending
\* set when the description was applied has been handed to the channel.
C11_DrainedOnEitherPath ==
    RemoteApplied => \A i \in 1..Len(cur.buffered) : Sent(cur.buffered[i]) >= 1

\* the message `c` describes is an "answer" whose payload was malformed or
\* one of whose two applies failed
AnswerFailed(c) ==
    /\ c.kind = "answer"
    /\ (c.malformed \/ c.setLocal = "failed" \/ c.setRemote = "failed")

\* the positions of the signaling loop inside handleRemoteAnswer
AnswerPcs == {"ans_setlocal", "ans_setremote", "ans_range", "ans_drain"}

\* C12: while an "answer" is handled the payload is applied as local
\* description before it is applied as remote description, and the loop
\* writes to the channel only when both have succeeded; once the payload
\* was found malformed or an apply failed the handler is left and it has
\* written nothing; and no step of the handler changes the pending set.
C12_AnswerAppliesThenDrains ==
    [][/\ (cur'.kind = "answer" /\ cur.setRemote = "none" /\ cur'.setRemote # "none")
            => cur.setLocal = "ok"
       /\ (cur'.kind = "answer" /\ LoopWrites' # LoopWrites /\ LoopWrites' # <<>>)
            => (cur.setLocal = "ok" /\ cur.setRemote = "ok")
       /\ AnswerFailed(cur') => (loopPc' \notin AnswerPcs /\ LoopWrites' = <<>>)
       /\ (cur'.kind = "answer" /\ loopVars' # loopVars)
            => pendingCandidates' = pendingCandidates]_vars

\* an "answer" was rejected by SetRemoteDescription while a candidate was
\* buffered: the handler is left, the candidate is still buffered and unsent
C12_Witness ==
    /\ loopPc = "read"
    /\ cur.kind = "answer"
    /\ cur.setLocal = "ok"
    /\ cur.setRemote = "failed"
    /\ pendingCandidates = <<1>>
    /\ Sent(1) = 0

\* the callback has read RemoteDescription(), found it nil, and has not yet
\* appended to the pending set
CallbackAppending == cbPc = "append"

\* the signaling loop has applied the remote description of an "answer" and
\* has not yet finished the range over the pending set
LoopDraining == loopPc \in {"ans_range", "ans_drain"}

\* C13: the callback is never between its check of the remote description
\* and its append to the pending set while the signaling loop is between
\* its apply of the remote description and the end of its iteration over
\* the pending set.
C13_PendingSetMutualExclusion ==
    ~(Running /\ CallbackAppending /\ LoopDraining)

\* the discriminants whose messages are only logged
ObservedOnlyKinds == {"playerCount", "config", "unknown"}

\* C14: the step that handles a "playerCount" message, a "config" message
\* or a message with an unrecognized discriminant leaves the local and the
\* remote description and the pending set as they were, writes nothing to
\* the channel, and ends with the loop back at its read.
C14_ObservedOnlyMessages ==
    [][(msgCount' # msgCount /\ cur'.kind \in ObservedOnlyKinds)
          => /\ localDescription' = localDescription
             /\ remoteDescription' = remoteDescription
             /\ pendingCandidates' = pendingCandidates
             /\ wsOut' = wsOut
             /\ loopPc' = "read"]_vars

\* such a message was handled after a candidate had been buffered and then
\* drained by an answer: the candidate is still in the pending set, both
\* descriptions are present, and nothing was written since the message began
C14_Witness ==
    /\ cur.kind \in ObservedOnlyKinds
    /\ loopPc = "read"
    /\ pendingCandidates # <<>>
    /\ Drained(pendingCandidates[1]) = 1
    /\ localDescription # "absent"
    /\ remoteDescription # "absent"
    /\ cur.start = Len(wsOut)

\* C15: when a step leaves the receive loop the channel has been closed,
\* and once the loop is left no further message is dispatched.
C15_LoopExitClosesChannel ==
    [][/\ (loopPc' = "exited" => wsClosed')
       /\ (loopPc = "exited" => (loopPc' = "exited" /\ msgCount' = msgCount))]_vars

\* C16: when the receive loop has ended and no relay loop has panicked, the
\* process is running and the target of every relay loop that was started
\* is open, so that the loop can go on forwarding frames.
C16_RelaySurvivesLoopEnd ==
    \A k \in Kinds :
        (loopPc = "exited" /\ trackPc[k] # "none" /\ panicBy = NoPanic)
            => (proc = "running" /\ UdpConnection(k) = "open")

\* the feedback types the flags enable, in the order of the tick's body
EnabledFeedback ==
    (IF sendPLI THEN <<"PLI">> ELSE <<>>) \o (IF sendREMB THEN <<"REMB">> ELSE <<>>)

\* C17: the emitter of every observed track has written, for each of its
\* ticks so far and in the ticks' order, one feedback message of each
\* enabled type and none of a type that is not enabled, each carrying the
\* track's SSRC, whether or not earlier emissions failed; and while the
\* process runs its next tick can always happen.
C17_EveryTickEmits ==
    \A k \in Kinds :
        /\ Len(rtcpOut[k]) = tickCount[k] * Len(EnabledFeedback)
        /\ \A t \in 1..tickCount[k] :
               \A j \in 1..Len(EnabledFeedback) :
                   LET e == rtcpOut[k][(t - 1) * Len(EnabledFeedback) + j]
                   IN /\ e.type = EnabledFeedback[j]
                      /\ e.tick = t
                      /\ e.ssrc = TrackSSRC(k)
        /\ (Running /\ mainPc = "loop" /\ trackPc[k] # "none" /\ tickCount[k] < MaxTicks)
               => ENABLED FeedbackTick(k)

\* both feedback types are enabled, the keyframe request of the video
\* emitter's first tick failed, the bandwidth estimate of that tick was
\* emitted all the same, and so were both messages of the second tick
C17_Witness ==
    /\ sendPLI /\ sendREMB
    /\ tickCount["video"] = 2
    /\ Len(rtcpOut["video"]) = 4
    /\ rtcpOut["video"][1].failed
    /\ rtcpOut["video"][2].type = "REMB"
    /\ rtcpOut["video"][3].tick = 2

C19_OneChannelWriter ==
    \A c1, c2 \in wsWriters : c1 = c2

\* the signaling loop has applied the remote description of an "offer" and
\* has not yet written (or given up) the answer to it
AnswerOutstanding ==
    /\ cur.kind = "offer"
    /\ cur.setRemote = "ok"
    /\ loopPc \in {"off_create", "off_setlocal", "off_write"}

\* C20: while the answer to an applied "offer" has not been written, no
\* candidate that was discovered after the offer was applied has been handed
\* to the channel.
C20_AnswerBeforeCandidates ==
    AnswerOutstanding =>
        \A i \in 1..Len(wsOut) :
            wsOut[i].type = "iceCandidate" => wsOut[i].cand <= cur.discovered

====
